---- MODULE Spec2Model ----
(***************************************************************************)
(* A model of the Indaleko ingestion pipeline.                             *)
(*                                                                         *)
(*  - IndalekoICloudIngester.ingest (src/IndalekoICloudIngestor.py): the   *)
(*    run that turns a list of provider records into an object batch and   *)
(*    a relationship batch, with its run counters.                         *)
(*  - IndalekoWindowsLocalIndexer.windows_to_posix / posix_to_windows      *)
(*    (src/IndalekoWindowsLocalIndexer.py): the reserved-character         *)
(*    substitution and its inverse.                                        *)
(***************************************************************************)
EXTENDS Integers, Sequences, FiniteSets, TLC

VARIABLES
    \* ---- IndalekoICloudIngester ----
    pc,                 \* position of ingest()
    failure,            \* the statement of ingest() that raised, if any
    input_source,       \* self.input_file: is it there, its suffix, what it decodes to
    input_file,         \* decoded content of self.input_file
    indexer_data,       \* self.indexer_data
    dir_data,           \* local dir_data of ingest()
    file_data,          \* local file_data of ingest()
    dirmap,             \* local dirmap of ingest(): Path -> ObjectIdentifier
    dir_edges,          \* local dir_edges of ingest()
    dir_count,          \* self.dir_count
    file_count,         \* self.file_count
    edge_count,         \* self.edge_count
    orphan_count,       \* the run's orphan counter; ingest() never writes it
    object_batch,       \* content of self.output_file
    relationship_batch, \* content of edge_file
    load_string,        \* local load_string of ingest()
    load_strings,       \* the load strings printed so far
    \* ---- windows_to_posix / posix_to_windows ----
    filename,           \* the name handed to the conversion
    converted,          \* result of the first conversion
    restored,           \* result of converting back
    direction,          \* which round trip is being run, and how far it is
    \* ---- IndalekoWindowsLocalIndexer ----
    index_pc,           \* position of index()
    walk,               \* the entries os.walk(self.path) yields, in order
    position,           \* the entry of the walk that index() handles next
    machine_config,     \* self.machine_config: drive letter -> volume GUID or None
    index_data,         \* local data of index()
    last_drive,         \* local last_drive of index()
    last_uri,           \* local last_uri of index()
    resolved,           \* the drives convert_windows_path_to_guid_uri was called for
    \* ---- fileaudit.operators.FilterFields ----
    pos,                \* FilterFields(pos, queries, exact_match)
    queries,
    exact_match,
    input_arr,          \* the (status, fields) handed to execute
    res_arr,            \* the (status, fields) execute returned
    \* ---- fileaudit.operators.InputReader ----
    process,            \* the process subprocess.Popen gives run(): what it does
    reader_pc,          \* position of the generator run()
    output_lines,       \* the items run() has yielded so far
    \* ---- IndalekoLinuxLocalIndexer ----
    linux_pc,           \* position of index()
    tree,               \* the entries os.walk(self.path) yields: name, in dirs or in files, stat outcome
    visited,            \* the number of entries index() has gone through
    linux_data,         \* local data of index()
    linux_dir_count,    \* self.dir_count
    linux_file_count,   \* self.file_count
    \* ---- IndalekoActivityDataProviderRegistrationService / IADPLocationRegistration ----
    activity_providers, \* the documents of the ActivityDataProviders collection, in insertion order
    data_collections,   \* the per-provider data collections that exist, by uuid
    uuid4_count,        \* the number of uuid.uuid4() values drawn for data collections
    location_registration,\* the IADPLocationRegistration singleton
    last_call,          \* the latest call: what it was, for whom, how it ended
    \* ---- IndalekoMachineConfig ----
    captured,           \* self.captured of the machine config in hand
    entry_captured,     \* entry['captured'] of the config's document in the MachineConfig collection
    captured_before,    \* what the latest call was given
    config_call,        \* the latest call and how it ended
    \* ---- IndalekoDBConfig ----
    db_pc,              \* position of start()
    started,            \* self.started
    updated,            \* self.updated
    server_ready,       \* does the database server answer the readiness request
    databases,          \* the databases of the server
    starts,             \* the number of start() calls made
    starts_returned,    \* the number of start() calls that ran to their end
    probes,             \* the number of readiness requests sent
    connections,        \* the number of ArangoClient connections made
    setup_calls,        \* the number of setup_database calls
    start_outcome       \* how the latest start() ended

ingestVars == <<pc, failure, input_source, input_file, indexer_data, dir_data, file_data, dirmap,
                dir_edges, dir_count, file_count, edge_count, orphan_count,
                object_batch, relationship_batch, load_string, load_strings>>
pathVars == <<filename, converted, restored, direction>>
indexVars == <<index_pc, walk, position, machine_config, index_data, last_drive, last_uri, resolved>>
filterVars == <<pos, queries, exact_match, input_arr, res_arr>>
readerVars == <<process, reader_pc, output_lines>>
linuxVars == <<linux_pc, tree, visited, linux_data, linux_dir_count, linux_file_count>>
registrationVars == <<activity_providers, data_collections, uuid4_count, location_registration, last_call>>
configVars == <<captured, entry_captured, captured_before, config_call>>
dbVars == <<db_pc, started, updated, server_ready, databases, starts, starts_returned, probes, connections, setup_calls, start_outcome>>
vars == <<ingestVars, pathVars, indexVars, filterVars, readerVars, linuxVars, registrationVars, configVars, dbVars>>

\* What the actions of one component leave alone.
nonIngestVars == <<pathVars, indexVars, filterVars, readerVars, linuxVars, registrationVars, configVars, dbVars>>
nonPathVars == <<ingestVars, indexVars, filterVars, readerVars, linuxVars, registrationVars, configVars, dbVars>>
nonIndexVars == <<ingestVars, pathVars, filterVars, readerVars, linuxVars, registrationVars, configVars, dbVars>>
nonFilterVars == <<ingestVars, pathVars, indexVars, readerVars, linuxVars, registrationVars, configVars, dbVars>>
nonReaderVars == <<ingestVars, pathVars, indexVars, filterVars, linuxVars, registrationVars, configVars, dbVars>>
nonLinuxVars == <<ingestVars, pathVars, indexVars, filterVars, readerVars, registrationVars, configVars, dbVars>>
nonRegistrationVars == <<ingestVars, pathVars, indexVars, filterVars, readerVars, linuxVars, configVars, dbVars>>
nonConfigVars == <<ingestVars, pathVars, indexVars, filterVars, readerVars, linuxVars, registrationVars, dbVars>>
nonDbVars == <<ingestVars, pathVars, indexVars, filterVars, readerVars, linuxVars, registrationVars, configVars>>

(***************************************************************************)
(* Bounds of the model.                                                    *)
(***************************************************************************)
MaxItems == 3
MaxLen == 4

\* The value of a file that has not been written, of a key that is absent.
NotWritten == "not written"

(***************************************************************************)
(* Provider records.  A path is the sequence of its components, so that    *)
(* the parent directory path of a path is the path without its last one.   *)
(***************************************************************************)
Ids == {"uuid-1", "uuid-2", "uuid-3"}
Paths == {<<"root">>, <<"root", "sub">>, <<"root", "sub", "b.txt">>}

\* A key that a provider record does not have.
Absent == "absent"

\* The size of a record that has no 'size' key.
NoSize == -1

\* The keys normalize_index_data reads, each there or not (the markers are
\* read for their presence alone).
ProviderRecords ==
    [ObjectIdentifier : Ids \cup {Absent}, path_display : Paths,
     FolderMetadata : BOOLEAN, FileMetadata : BOOLEAN,
     size : {NoSize, 5},
     client_modified : {Absent, "2024-01-01"},
     server_modified : {Absent, "2024-01-02"}]

HasFileDetails(r) ==
    /\ r.size # NoSize
    /\ r.client_modified # Absent
    /\ r.server_modified # Absent

HasNoFileDetails(r) ==
    /\ r.size = NoSize
    /\ r.client_modified = Absent
    /\ r.server_modified = Absent

\* Records as the indexer writes them: an identifier, exactly one of the two
\* markers, and size and timestamps on the files and only there.
MarkedRecords ==
    {r \in ProviderRecords :
        /\ r.ObjectIdentifier # Absent
        /\ r.FolderMetadata # r.FileMetadata
        /\ IF r.FileMetadata THEN HasFileDetails(r) ELSE HasNoFileDetails(r)}

SeqsUpTo(S, n) == UNION {[1..k -> S] : k \in 0..n}

(***************************************************************************)
(* IndalekoObject and UnixFileAttributes are collaborators of the          *)
(* ingester: an object keeps the arguments it was built from (obj.args),   *)
(* and map_file_attributes names the attribute bits that are set.          *)
(***************************************************************************)
map_file_attributes(bits) == {bits}

\* obj.args['WindowsFileAttributes']: the iCloud normalizer sets none.
WindowsFileAttributes(obj) == {}

\* normalize_index_data raises on this record: the ValueError of a missing
\* ObjectIdentifier, the KeyError of data['client_modified'],
\* data['server_modified'] or data['size'] in the FileMetadata branch, the
\* unbound unix_file_attributes of a record with neither marker.
NormalizeRaises(data) ==
    \/ data.ObjectIdentifier = Absent
    \/ data.FileMetadata /\ ~HasFileDetails(data)
    \/ ~data.FolderMetadata /\ ~data.FileMetadata

\* normalize_index_data: the FileMetadata test comes second and wins.
normalize_index_data(data) ==
    [ObjectIdentifier |-> data.ObjectIdentifier,
     Path |-> data.path_display,
     Timestamps |->
         IF data.FileMetadata
         THEN << [Label |-> "MODIFICATION_TIMESTAMP",
                  Value |-> data.client_modified,
                  Description |-> "Client Modified"],
                 [Label |-> "CHANGE_TIMESTAMP",
                  Value |-> data.server_modified,
                  Description |-> "Server Modified"] >>
         ELSE <<>>,
     Size |-> IF data.FileMetadata THEN data.size ELSE 0,
     UnixFileAttributes |->
         map_file_attributes(IF data.FileMetadata THEN "S_IFREG" ELSE "S_IFDIR")]

\* The directory test of ingest().
IsDirectoryObject(obj) ==
    \/ "S_IFDIR" \in obj.UnixFileAttributes
    \/ "FILE_ATTRIBUTE_DIRECTORY" \in WindowsFileAttributes(obj)

(***************************************************************************)
(* The first loop of ingest(): normalize every record and sort it into     *)
(* dir_data or file_data, counting as it goes.  A record on which          *)
(* normalize_index_data raises ends the loop with what was counted so far. *)
(***************************************************************************)
\* Variants of ClassifyStep with a slip in it: a file that is kept but not
\* counted, and a directory that falls through into file_data as well.
ClassifyStep_FileNotCounted(acc, item) ==
    IF NormalizeRaises(item)
    THEN [acc EXCEPT !.raised = TRUE]
    ELSE LET obj == normalize_index_data(item) IN
         IF IsDirectoryObject(obj)
         THEN [acc EXCEPT !.dir_data = Append(@, obj), !.dir_count = @ + 1]
         ELSE [acc EXCEPT !.file_data = Append(@, obj)]

ClassifyStep_DirectoryFallsThrough(acc, item) ==
    IF NormalizeRaises(item)
    THEN [acc EXCEPT !.raised = TRUE]
    ELSE LET obj == normalize_index_data(item) IN
         IF IsDirectoryObject(obj)
         THEN [acc EXCEPT !.dir_data = Append(@, obj), !.dir_count = @ + 1,
                          !.file_data = Append(@, obj), !.file_count = @ + 1]
         ELSE [acc EXCEPT !.file_data = Append(@, obj), !.file_count = @ + 1]

ClassifyStep(acc, item) ==
    IF NormalizeRaises(item)
    THEN [acc EXCEPT !.raised = TRUE]
    ELSE LET obj == normalize_index_data(item) IN
         IF IsDirectoryObject(obj)
         THEN [acc EXCEPT !.dir_data = Append(@, obj), !.dir_count = @ + 1]
         ELSE [acc EXCEPT !.file_data = Append(@, obj), !.file_count = @ + 1]

RECURSIVE ClassifyItems(_, _)
ClassifyItems(items, acc) ==
    IF items = <<>> \/ acc.raised
    THEN acc
    ELSE ClassifyItems(Tail(items), ClassifyStep(acc, Head(items)))

(***************************************************************************)
(* The second loop: dirmap[item.args['Path']] = ObjectIdentifier, in the   *)
(* order of dir_data, a later directory overwriting an earlier one.        *)
(***************************************************************************)
DirmapPut(map, item) ==
    [p \in (DOMAIN map) \cup {item.Path} |->
        IF p = item.Path THEN item.ObjectIdentifier ELSE map[p]]

RECURSIVE BuildDirmap(_, _)
BuildDirmap(dirs, map) ==
    IF dirs = <<>>
    THEN map
    ELSE BuildDirmap(Tail(dirs), DirmapPut(map, Head(dirs)))

(***************************************************************************)
(* The third loop: the two edges of every item whose lookup key is in      *)
(* dirmap.  The key the code looks up is the item's own Path.              *)
(***************************************************************************)
LookupKey(item) == item.Path

ContainsEdge(item, parent_id) ==
    [kind |-> "Contains", object1 |-> item.ObjectIdentifier, object2 |-> parent_id]

ContainedByEdge(item, parent_id) ==
    [kind |-> "ContainedBy", object1 |-> parent_id, object2 |-> item.ObjectIdentifier]

EdgeStep(acc, item, map) ==
    LET parent == LookupKey(item) IN
    IF parent \notin DOMAIN map
    THEN acc   \* logging.warning; continue
    ELSE [acc EXCEPT
            !.dir_edges = @ \o <<ContainsEdge(item, map[parent]),
                                 ContainedByEdge(item, map[parent])>>,
            !.edge_count = @ + 2]

RECURSIVE BuildEdges(_, _, _)
BuildEdges(items, map, acc) ==
    IF items = <<>>
    THEN acc
    ELSE BuildEdges(Tail(items), map, EdgeStep(acc, Head(items), map))

\* A variant of ObjectsToWrite that leaves the directories out.
ObjectsToWrite_FilesOnly(dirs, files) == files

\* What ingest() hands to write_data_to_file for the object batch.
ObjectsToWrite(dirs, files) == dirs \o files

\* The two artifacts of a run, and the file argument that was not given.
ObjectsFile == "output_file"
EdgeFile == "edge_file"
NoFile == "no file"

\* build_load_string(collection=..., file=...): the descriptor names what it
\* was given.
build_load_string(collection, file) == [collection |-> collection, file |-> file]

\* load_string before ingest() has built any.
NoDescriptor == [collection |-> "none", file |-> NoFile]

\* The file argument of the two build_load_string calls of ingest().
ObjectsLoadStringFile == ObjectsFile
RelationshipsLoadStringFile == NoFile

(***************************************************************************)
(* ingest(), one action per statement group, in program order.             *)
(***************************************************************************)
EmptyRun == [dir_data |-> <<>>, file_data |-> <<>>,
             dir_count |-> 0, file_count |-> 0, raised |-> FALSE]

(***************************************************************************)
(* self.input_file as load_indexer_data_from_file meets it: whether the    *)
(* file is there, its suffix, and what its content decodes to.  A .json    *)
(* file that holds a list loads like the .jsonl file that holds it.        *)
(***************************************************************************)
ListSource == [exists |-> TRUE, suffix |-> ".jsonl", decodes_to |-> "list"]
UnknownSuffixSource == [exists |-> TRUE, suffix |-> ".txt", decodes_to |-> "list"]
NotAListSource == [exists |-> TRUE, suffix |-> ".json", decodes_to |-> "dict"]
MissingSources ==
    {[exists |-> FALSE, suffix |-> x, decodes_to |-> "nothing"] : x \in {".jsonl", ".json"}}

\* A variant of LoadRaises that reads a file of any suffix as .jsonl.
LoadRaises_AnySuffixRead(src) ==
    \/ ~src.exists
    \/ src.decodes_to # "list"

\* load_indexer_data_from_file raises: the open of a missing file, the
\* unknown suffix, the content that is no list.
LoadRaises(src) ==
    \/ src.suffix \notin {".jsonl", ".json"}
    \/ ~src.exists
    \/ src.decodes_to # "list"

\* self.indexer_data after json.load of a file that holds no list.
NotAList == "not a list"

\* load_indexer_data_from_file
Load ==
    /\ pc = "start"
    /\ ~LoadRaises(input_source)
    /\ indexer_data' = input_file
    /\ pc' = "loaded"
    /\ UNCHANGED <<failure, input_source, input_file, dir_data, file_data, dirmap, dir_edges, dir_count,
                   file_count, edge_count, orphan_count, object_batch,
                   relationship_batch, load_string, load_strings>>
    /\ UNCHANGED nonIngestVars

\* load_indexer_data_from_file raises, and ingest() with it
LoadFails ==
    /\ pc = "start"
    /\ LoadRaises(input_source)
    /\ indexer_data' = IF input_source.exists /\ input_source.suffix = ".json"
                       THEN NotAList
                       ELSE indexer_data
    /\ failure' = "load_indexer_data_from_file"
    /\ pc' = "raised"
    /\ UNCHANGED <<input_source, input_file, dir_data, file_data, dirmap, dir_edges,
                   dir_count, file_count, edge_count, orphan_count, object_batch,
                   relationship_batch, load_string, load_strings>>
    /\ UNCHANGED nonIngestVars

\* for item in self.indexer_data: ...
Classify ==
    /\ pc = "loaded"
    /\ LET run == ClassifyItems(indexer_data,
                      [EmptyRun EXCEPT !.dir_count = dir_count,
                                       !.file_count = file_count]) IN
        /\ dir_data' = run.dir_data
        /\ file_data' = run.file_data
        /\ dir_count' = run.dir_count
        /\ file_count' = run.file_count
        /\ pc' = IF run.raised THEN "raised" ELSE "classified"
        /\ failure' = IF run.raised THEN "normalize_index_data" ELSE failure
    /\ UNCHANGED <<input_source, input_file, indexer_data, dirmap, dir_edges, edge_count,
                   orphan_count, object_batch, relationship_batch, load_string, load_strings>>
    /\ UNCHANGED nonIngestVars

\* dirmap = {}; for item in dir_data: ...
MapDirectories ==
    /\ pc = "classified"
    /\ dirmap' = BuildDirmap(dir_data, <<>>)
    /\ pc' = "mapped"
    /\ UNCHANGED <<failure, input_source, input_file, indexer_data, dir_data, file_data, dir_edges,
                   dir_count, file_count, edge_count, orphan_count, object_batch,
                   relationship_batch, load_string, load_strings>>
    /\ UNCHANGED nonIngestVars

\* dir_edges = []; for item in dir_data + file_data: ...
LinkItems ==
    /\ pc = "mapped"
    /\ LET run == BuildEdges(dir_data \o file_data, dirmap,
                      [dir_edges |-> <<>>, edge_count |-> edge_count]) IN
        /\ dir_edges' = run.dir_edges
        /\ edge_count' = run.edge_count
    /\ pc' = "linked"
    /\ UNCHANGED <<failure, input_source, input_file, indexer_data, dir_data, file_data, dirmap,
                   dir_count, file_count, orphan_count, object_batch,
                   relationship_batch, load_string, load_strings>>
    /\ UNCHANGED nonIngestVars

\* self.write_data_to_file(dir_data + file_data, self.output_file)
WriteObjects ==
    /\ pc = "linked"
    /\ object_batch' = ObjectsToWrite(dir_data, file_data)
    /\ pc' = "objects_written"
    /\ UNCHANGED <<failure, input_source, input_file, indexer_data, dir_data, file_data, dirmap,
                   dir_edges, dir_count, file_count, edge_count, orphan_count,
                   relationship_batch, load_string, load_strings>>
    /\ UNCHANGED nonIngestVars

\* self.write_data_to_file(dir_data + file_data, self.output_file) raises
WriteObjectsFails ==
    /\ pc = "linked"
    /\ failure' = "write_data_to_file(objects)"
    /\ pc' = "raised"
    /\ UNCHANGED <<input_source, input_file, indexer_data, dir_data, file_data,
                   dirmap, dir_edges, dir_count, file_count, edge_count,
                   orphan_count, object_batch, relationship_batch, load_string,
                   load_strings>>
    /\ UNCHANGED nonIngestVars

\* load_string = self.build_load_string(collection='Objects', ...); print
AnnounceObjects ==
    /\ pc = "objects_written"
    /\ load_string' = build_load_string("Objects", ObjectsLoadStringFile)
    /\ load_strings' = Append(load_strings, load_string')
    /\ pc' = "objects_announced"
    /\ UNCHANGED <<failure, input_source, input_file, indexer_data, dir_data, file_data, dirmap,
                   dir_edges, dir_count, file_count, edge_count, orphan_count,
                   object_batch, relationship_batch>>
    /\ UNCHANGED nonIngestVars

\* load_string = self.build_load_string(collection='Relationships')
BuildEdgesLoadString ==
    /\ pc = "objects_announced"
    /\ load_string' = build_load_string("Relationships", RelationshipsLoadStringFile)
    /\ pc' = "edges_described"
    /\ UNCHANGED <<failure, input_source, input_file, indexer_data, dir_data, file_data, dirmap,
                   dir_edges, dir_count, file_count, edge_count, orphan_count,
                   object_batch, relationship_batch, load_strings>>
    /\ UNCHANGED nonIngestVars

\* self.write_data_to_file(dir_edges, edge_file)
WriteEdges ==
    /\ pc = "edges_described"
    /\ relationship_batch' = dir_edges
    /\ pc' = "edges_written"
    /\ UNCHANGED <<failure, input_source, input_file, indexer_data, dir_data, file_data, dirmap,
                   dir_edges, dir_count, file_count, edge_count, orphan_count,
                   object_batch, load_string, load_strings>>
    /\ UNCHANGED nonIngestVars

\* self.write_data_to_file(dir_edges, edge_file) raises
WriteEdgesFails ==
    /\ pc = "edges_described"
    /\ failure' = "write_data_to_file(relationships)"
    /\ pc' = "raised"
    /\ UNCHANGED <<input_source, input_file, indexer_data, dir_data, file_data,
                   dirmap, dir_edges, dir_count, file_count, edge_count,
                   orphan_count, object_batch, relationship_batch, load_string,
                   load_strings>>
    /\ UNCHANGED nonIngestVars

\* print('Load string: ', load_string) for the relationships
AnnounceEdges ==
    /\ pc = "edges_written"
    /\ load_strings' = Append(load_strings, load_string)
    /\ pc' = "done"
    /\ UNCHANGED <<failure, input_source, input_file, indexer_data, dir_data, file_data, dirmap,
                   dir_edges, dir_count, file_count, edge_count, orphan_count,
                   object_batch, relationship_batch, load_string>>
    /\ UNCHANGED nonIngestVars

PathIdle ==
    /\ filename = <<>>
    /\ converted = <<>>
    /\ restored = <<>>
    /\ direction = [first |-> "none", step |-> 0]

\* None, where a string is expected.
None == "None"

Drives == {"C", "D"}

IndexIdle ==
    /\ index_pc = "idle"
    /\ walk = <<>>
    /\ position = 1
    /\ machine_config = [d \in Drives |-> None]
    /\ index_data = <<>>
    /\ last_drive = None
    /\ last_uri = <<>>
    /\ resolved = <<>>

\* execute has not returned yet.
NotExecuted == <<1, <<>>, "not executed">>

FilterIdle ==
    /\ pos = 0
    /\ queries = <<>>
    /\ exact_match = FALSE
    /\ input_arr = <<0, <<>>>>
    /\ res_arr = NotExecuted

ReaderIdle ==
    /\ process = [raises |-> FALSE, returncode |-> 0, stdout |-> <<>>]
    /\ reader_pc = "idle"
    /\ output_lines = <<>>

LinuxIdle ==
    /\ linux_pc = "idle"
    /\ tree = <<>>
    /\ visited = 0
    /\ linux_data = <<>>
    /\ linux_dir_count = 0
    /\ linux_file_count = 0

\* No data collection (None where a collection is expected).
NoCollection == 0

RegistrationIdle ==
    /\ activity_providers = <<>>
    /\ data_collections = {}
    /\ uuid4_count = 0
    /\ location_registration =
           [initialized |-> FALSE, activity_provider |-> None,
            activity_provider_collection |-> NoCollection]
    /\ last_call = [op |-> "none", identifier |-> None, lookup |-> "not called",
                    outcome |-> "none", registered |-> FALSE]

ConfigIdle ==
    /\ captured = <<>>
    /\ entry_captured = <<>>
    /\ captured_before = <<>>
    /\ config_call = [op |-> "none", outcome |-> "none"]

DBIdle ==
    /\ db_pc = "idle"
    /\ started = FALSE
    /\ updated = FALSE
    /\ server_ready = FALSE
    /\ databases = {}
    /\ starts = 0
    /\ starts_returned = 0
    /\ probes = 0
    /\ connections = 0
    /\ setup_calls = 0
    /\ start_outcome = "none"

\* The state in which ingest() is entered: a fresh ingester.
FreshIngester ==
    /\ pc = "start"
    /\ failure = "none"
    /\ indexer_data = <<>>
    /\ dir_data = <<>>
    /\ file_data = <<>>
    /\ dirmap = <<>>
    /\ dir_edges = <<>>
    /\ dir_count = 0
    /\ file_count = 0
    /\ edge_count = 0
    /\ orphan_count = 0
    /\ object_batch = NotWritten
    /\ relationship_batch = NotWritten
    /\ load_string = NoDescriptor
    /\ load_strings = <<>>

\* The input of a run: a file that loads, with any list of marked records;
\* a file of unknown suffix, with any such list; a file that is missing; a
\* .json file that holds no list.
Init ==
    /\ FreshIngester
    /\ \/ /\ input_source \in {ListSource, UnknownSuffixSource}
          /\ input_file \in SeqsUpTo(MarkedRecords, MaxItems)
       \/ /\ input_source \in MissingSources \cup {NotAListSource}
          /\ input_file = <<>>
    /\ PathIdle
    /\ IndexIdle
    /\ FilterIdle
    /\ ReaderIdle
    /\ LinuxIdle
    /\ RegistrationIdle
    /\ ConfigIdle
    /\ DBIdle

\* The input of a run whose records may lack any of their keys.
MaxLooseItems == 2

InitLoose ==
    /\ FreshIngester
    /\ \/ /\ input_source = ListSource
          /\ input_file \in SeqsUpTo(ProviderRecords, MaxLooseItems)
       \/ /\ input_source \in MissingSources \cup {NotAListSource}
          /\ input_file = <<>>
    /\ PathIdle
    /\ IndexIdle
    /\ FilterIdle
    /\ ReaderIdle
    /\ LinuxIdle
    /\ RegistrationIdle
    /\ ConfigIdle
    /\ DBIdle

Next ==
    \/ Load
    \/ LoadFails
    \/ Classify
    \/ MapDirectories
    \/ LinkItems
    \/ WriteObjects
    \/ WriteObjectsFails
    \/ AnnounceObjects
    \/ BuildEdgesLoadString
    \/ WriteEdges
    \/ WriteEdgesFails
    \/ AnnounceEdges

Spec == Init /\ [][Next]_vars

SpecLoose == InitLoose /\ [][Next]_vars

(***************************************************************************)
(* windows_to_posix / posix_to_windows.  A name is the sequence of its     *)
(* characters; str.replace(old, new) replaces the occurrences of old from  *)
(* left to right, without overlap; the tables are walked in the order in   *)
(* which the dictionaries are written.                                     *)
(***************************************************************************)
StartsWith(s, old) ==
    /\ Len(old) <= Len(s)
    /\ SubSeq(s, 1, Len(old)) = old

RECURSIVE str_replace(_, _, _)
str_replace(s, old, new) ==
    IF s = <<>> THEN <<>>
    ELSE IF StartsWith(s, old)
         THEN new \o str_replace(SubSeq(s, Len(old) + 1, Len(s)), old, new)
         ELSE <<Head(s)>> \o str_replace(Tail(s), old, new)

win32_to_posix ==
    << [win32 |-> <<"<">>,  posix |-> <<"_", "l", "t", "_">>],
       [win32 |-> <<">">>,  posix |-> <<"_", "g", "t", "_">>],
       [win32 |-> <<":">>,  posix |-> <<"_", "c", "l", "n", "_">>],
       [win32 |-> <<"\"">>, posix |-> <<"_", "q", "t", "_">>],
       [win32 |-> <<"/">>,  posix |-> <<"_", "s", "l", "_">>],
       [win32 |-> <<"\\">>, posix |-> <<"_", "b", "s", "l", "_">>],
       [win32 |-> <<"|">>,  posix |-> <<"_", "b", "a", "r", "_">>],
       [win32 |-> <<"?">>,  posix |-> <<"_", "q", "m", "_">>],
       [win32 |-> <<"*">>,  posix |-> <<"_", "a", "s", "t", "_">>] >>

posix_to_win32 ==
    << [posix |-> <<"_", "l", "t", "_">>,      win32 |-> <<"<">>],
       [posix |-> <<"_", "g", "t", "_">>,      win32 |-> <<">">>],
       [posix |-> <<"_", "c", "l", "n", "_">>, win32 |-> <<":">>],
       [posix |-> <<"_", "q", "t", "_">>,      win32 |-> <<"\"">>],
       [posix |-> <<"_", "s", "l", "_">>,      win32 |-> <<"/">>],
       [posix |-> <<"_", "b", "s", "l", "_">>, win32 |-> <<"\\">>],
       [posix |-> <<"_", "b", "a", "r", "_">>, win32 |-> <<"|">>],
       [posix |-> <<"_", "q", "m", "_">>,      win32 |-> <<"?">>],
       [posix |-> <<"_", "a", "s", "t", "_">>, win32 |-> <<"*">>] >>

RECURSIVE ReplaceWin32(_, _)
ReplaceWin32(name, table) ==
    IF table = <<>> THEN name
    ELSE ReplaceWin32(str_replace(name, Head(table).win32, Head(table).posix),
                      Tail(table))

RECURSIVE ReplacePosix(_, _)
ReplacePosix(name, table) ==
    IF table = <<>> THEN name
    ELSE ReplacePosix(str_replace(name, Head(table).posix, Head(table).win32),
                      Tail(table))

\* A variant of windows_to_posix whose table lacks its first entry.
windows_to_posix_WithoutFirstEntry(name) == ReplaceWin32(name, Tail(win32_to_posix))

windows_to_posix(name) == ReplaceWin32(name, win32_to_posix)

posix_to_windows(name) == ReplacePosix(name, posix_to_win32)

\* The characters the names of the model are drawn from: two reserved
\* characters, the letters of their tokens, and a letter of no token.
Alphabet == {"<", ">", "_", "l", "t", "g", "x"}

Names == SeqsUpTo(Alphabet, MaxLen)

\* posix_to_windows(filename), then windows_to_posix of the result.
ToWindows ==
    /\ direction = [first |-> "posix_to_windows", step |-> 0]
    /\ converted' = posix_to_windows(filename)
    /\ direction' = [direction EXCEPT !.step = 1]
    /\ UNCHANGED <<filename, restored>>
    /\ UNCHANGED nonPathVars

BackToPosix ==
    /\ direction = [first |-> "posix_to_windows", step |-> 1]
    /\ restored' = windows_to_posix(converted)
    /\ direction' = [direction EXCEPT !.step = 2]
    /\ UNCHANGED <<filename, converted>>
    /\ UNCHANGED nonPathVars

\* windows_to_posix(filename), then posix_to_windows of the result.
ToPosix ==
    /\ direction = [first |-> "windows_to_posix", step |-> 0]
    /\ converted' = windows_to_posix(filename)
    /\ direction' = [direction EXCEPT !.step = 1]
    /\ UNCHANGED <<filename, restored>>
    /\ UNCHANGED nonPathVars

BackToWindows ==
    /\ direction = [first |-> "windows_to_posix", step |-> 1]
    /\ restored' = posix_to_windows(converted)
    /\ direction' = [direction EXCEPT !.step = 2]
    /\ UNCHANGED <<filename, converted>>
    /\ UNCHANGED nonPathVars

IngestIdle ==
    /\ pc = "idle"
    /\ failure = "none"
    /\ input_source = ListSource
    /\ input_file = <<>>
    /\ indexer_data = <<>>
    /\ dir_data = <<>>
    /\ file_data = <<>>
    /\ dirmap = <<>>
    /\ dir_edges = <<>>
    /\ dir_count = 0
    /\ file_count = 0
    /\ edge_count = 0
    /\ orphan_count = 0
    /\ object_batch = NotWritten
    /\ relationship_batch = NotWritten
    /\ load_string = NoDescriptor
    /\ load_strings = <<>>

InitPath ==
    /\ filename \in Names
    /\ converted = <<>>
    /\ restored = <<>>
    /\ direction \in [first : {"posix_to_windows", "windows_to_posix"}, step : {0}]
    /\ IngestIdle
    /\ IndexIdle
    /\ FilterIdle
    /\ ReaderIdle
    /\ LinuxIdle
    /\ RegistrationIdle
    /\ ConfigIdle
    /\ DBIdle

NextPath ==
    \/ ToWindows
    \/ BackToPosix
    \/ ToPosix
    \/ BackToWindows

SpecPath == InitPath /\ [][NextPath]_vars

(***************************************************************************)
(* IndalekoWindowsLocalIndexer: index(), build_stat_dict() and             *)
(* convert_windows_path_to_guid_uri().                                     *)
(*                                                                         *)
(* A path is the sequence of its components, the first one being its       *)
(* drive letter ("C" for C:).  A URI is such a sequence too; its volume    *)
(* part takes two components, the \\?\ prefix and what follows it.         *)
(***************************************************************************)
MaxEntries == 3

Guids == {"guid-1"}

VolumePrefix == "\\\\?\\Volume{"
LetterPrefix == "\\\\?\\"

\* self.machine_config.map_drive_letter_to_volume_guid(drive)
map_drive_letter_to_volume_guid(drive) == machine_config[drive]

\* os.path.splitdrive: the drive or volume part, and the rest.
splitdrive(path) ==
    IF path # <<>> /\ Head(path) \in {VolumePrefix, LetterPrefix}
    THEN <<SubSeq(path, 1, 2), SubSeq(path, 3, Len(path))>>
    ELSE <<SubSeq(path, 1, 1), SubSeq(path, 2, Len(path))>>

\* os.path.join(path, rooted, name) with `rooted` an absolute path without
\* drive: the drive of `path`, then `rooted`, then the name.
join(path, rooted, name) == splitdrive(path)[1] \o rooted \o <<name>>

\* last_uri.startswith('\\\\?\\Volume{')
StartsWithVolume(uri) == uri # <<>> /\ Head(uri) = VolumePrefix

convert_windows_path_to_guid_uri(path) ==
    LET drive == splitdrive(path)[1][1]
        mapped_guid == map_drive_letter_to_volume_guid(drive)
    IN  IF mapped_guid # None
        THEN <<VolumePrefix, mapped_guid>>
        ELSE <<LetterPrefix, drive>>

\* build_stat_dict(name, root, last_uri, last_drive) for an entry of the walk,
\* with the outcome of os.stat on it.  "None" is the early return of a failed
\* stat, "AssertionError" the assert after the resolver, "entry" the tuple
\* (stat_dict, last_uri, last_drive).
build_stat_dict(entry, last_uri_arg, last_drive_arg) ==
    LET file_path == entry.root \o <<entry.name>>
        drive == splitdrive(entry.root)[1][1]
        changed == last_drive_arg # drive
        uri == IF changed
               THEN convert_windows_path_to_guid_uri(entry.root)
               ELSE file_path
    IN  [outcome |->
             IF ~entry.stat_ok THEN "None"
             ELSE IF changed /\ ~StartsWithVolume(uri) THEN "AssertionError"
             ELSE "entry",
         resolver_called |-> entry.stat_ok /\ changed,
         stat_dict |-> [file |-> entry.name,
                        path |-> entry.root,
                        URI |-> join(uri, splitdrive(entry.root)[2], entry.name)],
         last_uri |-> uri,
         last_drive |-> drive]

\* One pass of the loop body of index() over the next entry of the walk.
Step ==
    LET entry == walk[position]
        result == build_stat_dict(entry, last_uri, last_drive)
    IN  /\ resolved' = IF result.resolver_called
                       THEN Append(resolved, result.last_drive)
                       ELSE resolved
        /\ IF result.outcome = "entry"
           THEN /\ index_data' = Append(index_data, result.stat_dict)
                /\ last_uri' = result.last_uri
                /\ last_drive' = result.last_drive
           ELSE UNCHANGED <<index_data, last_uri, last_drive>>
        /\ IF result.outcome = "AssertionError"
           THEN /\ index_pc' = "raised"
                /\ UNCHANGED position
           ELSE /\ position' = position + 1
                /\ UNCHANGED index_pc
        /\ UNCHANGED <<walk, machine_config>>
        /\ UNCHANGED nonIndexVars

\* The entry's stat fails: build_stat_dict returns None, index() goes on.
SkipEntry ==
    /\ index_pc = "walking"
    /\ position <= Len(walk)
    /\ ~walk[position].stat_ok
    /\ Step

\* The entry's stat succeeds and build_stat_dict returns the entry.
CaptureEntry ==
    /\ index_pc = "walking"
    /\ position <= Len(walk)
    /\ build_stat_dict(walk[position], last_uri, last_drive).outcome = "entry"
    /\ Step

\* The assert of build_stat_dict fails; index() does not catch it.
AssertFails ==
    /\ index_pc = "walking"
    /\ position <= Len(walk)
    /\ build_stat_dict(walk[position], last_uri, last_drive).outcome = "AssertionError"
    /\ Step

\* The walk is over: return data.
Return ==
    /\ index_pc = "walking"
    /\ position > Len(walk)
    /\ index_pc' = "returned"
    /\ UNCHANGED <<walk, position, machine_config, index_data, last_drive, last_uri, resolved>>
    /\ UNCHANGED nonIndexVars

\* The entries of a walk below a directory of one drive: os.walk yields each
\* (root, name) once.
WalkNames == {"a", "b"}

WalkRoots(drive) == {<<drive>>, <<drive, "dir">>}

WalkEntries(drive) == [name : WalkNames, root : WalkRoots(drive), stat_ok : BOOLEAN]

Walks(drive) ==
    {w \in SeqsUpTo(WalkEntries(drive), MaxEntries) :
        \A i, j \in DOMAIN w :
            (w[i].root = w[j].root /\ w[i].name = w[j].name) => i = j}

InitIndex ==
    /\ index_pc = "walking"
    /\ \E drive \in Drives : walk \in Walks(drive)
    /\ position = 1
    /\ machine_config \in [Drives -> Guids \cup {None}]
    /\ index_data = <<>>
    /\ last_drive = None
    /\ last_uri = <<>>
    /\ resolved = <<>>
    /\ IngestIdle
    /\ PathIdle
    /\ FilterIdle
    /\ ReaderIdle
    /\ LinuxIdle
    /\ RegistrationIdle
    /\ ConfigIdle
    /\ DBIdle

NextIndex ==
    \/ SkipEntry
    \/ CaptureEntry
    \/ AssertFails
    \/ Return

SpecIndex == InitIndex /\ [][NextIndex]_vars

(***************************************************************************)
(* fileaudit.operators.FilterFields, as main() of fileaudit/mac.py builds  *)
(* it and as fileaudit/operators_test.py runs it.  A field and a query     *)
(* are strings, modelled as the sequences of their characters.             *)
(***************************************************************************)
MaxFields == 3

\* query in field / query == field
FieldMatches(query, field, exact) ==
    IF exact
    THEN field = query
    ELSE \E i \in 1..(Len(field) - Len(query) + 1) :
             SubSeq(field, i, i + Len(query) - 1) = query

\* The loop over the queries: does one of them match the field?
RECURSIVE AnyQueryMatches(_, _, _)
AnyQueryMatches(qs, field, exact) ==
    IF qs = <<>> THEN FALSE
    ELSE IF FieldMatches(Head(qs), field, exact) THEN TRUE
    ELSE AnyQueryMatches(Tail(qs), field, exact)

\* A variant of FilterFields.execute that compares for equality whatever
\* exact_match says.
execute_AlwaysExact(p, qs, exact, input) ==
    LET fields == input[2] IN
    IF input[1] = 0 /\ p < Len(fields) /\ AnyQueryMatches(qs, fields[p + 1], TRUE)
    THEN <<0, fields>>
    ELSE <<1, fields>>

\* FilterFields(p, qs, exact_match=exact).execute(input), positions counted
\* from 0 as Python does.
execute(p, qs, exact, input) ==
    LET fields == input[2] IN
    IF input[1] = 0 /\ p < Len(fields) /\ AnyQueryMatches(qs, fields[p + 1], exact)
    THEN <<0, fields>>
    ELSE <<1, fields>>

Execute ==
    /\ res_arr = NotExecuted
    /\ res_arr' = execute(pos, queries, exact_match, input_arr)
    /\ UNCHANGED <<pos, queries, exact_match, input_arr>>
    /\ UNCHANGED nonFilterVars

\* The positions, query lists and fields of the tests.
Positions == {0, 1, 5}

QueryLists ==
    { << <<"b">> >>, << <<"b">>, <<"a">> >>, << <<"x">>, <<"y">> >>, << <<>>, <<>> >> }

FieldValues == { <<>>, <<"a">>, <<"b">>, <<"c">>, <<"a", "a">>, <<"b", "b">> }

InitFilter ==
    /\ pos \in Positions
    /\ queries \in QueryLists
    /\ exact_match \in BOOLEAN
    /\ input_arr \in {0} \X SeqsUpTo(FieldValues, MaxFields)
    /\ res_arr = NotExecuted
    /\ IngestIdle
    /\ PathIdle
    /\ IndexIdle
    /\ ReaderIdle
    /\ LinuxIdle
    /\ RegistrationIdle
    /\ ConfigIdle
    /\ DBIdle

NextFilter == Execute

SpecFilter == InitFilter /\ [][NextFilter]_vars

\* The cases of TestFilterFieldsWithPos with their expected status.
TestCases ==
    LET a == <<"a">>  b == <<"b">>  c == <<"c">>  one == <<"1">>
        aa == <<"a", "a">>  bb == <<"b", "b">>  x == <<"x">>  y == <<"y">>
        Case(p, qs, exact, fields, status) ==
            [pos |-> p, queries |-> qs, exact_match |-> exact,
             fields |-> fields, status |-> status]
    IN  { Case(1, <<b>>, TRUE, <<a, bb, c>>, 1),
          Case(1, <<b>>, TRUE, <<b, b, c, c>>, 0),
          Case(1, <<b, a>>, TRUE, <<a, b, c>>, 0),
          Case(1, <<b, a>>, TRUE, <<one, a, a, c>>, 0),
          Case(1, <<b, a>>, TRUE, <<a, bb, c>>, 1),
          Case(1, <<b, a>>, TRUE, <<one, aa, a, c>>, 1),
          Case(1, <<b>>, FALSE, <<a, b, c>>, 0),
          Case(1, <<b>>, FALSE, <<b, b, c, c>>, 0),
          Case(1, <<b, a>>, FALSE, <<a, b, c>>, 0),
          Case(1, <<b, a>>, FALSE, <<one, a, a, c>>, 0),
          Case(1, <<b>>, FALSE, <<b, c, c, c>>, 1),
          Case(1, <<b, a>>, FALSE, <<a, c, c>>, 1),
          Case(5, <<b>>, FALSE, <<a, b, c>>, 1),
          Case(5, <<b>>, FALSE, <<b, c, c, c>>, 1),
          Case(1, <<x, y>>, FALSE, <<a, c, c>>, 1),
          Case(1, <<x, y>>, FALSE, <<one, a, a, c>>, 1),
          Case(1, << <<>>, <<>> >>, FALSE, <<a, c, c>>, 0),
          Case(1, << <<>>, <<>> >>, FALSE, <<one, c, a, c>>, 0) }

\* execute gives every case of the tests its expected status and a list as
\* long as its input.
ExecuteAgreesWithTests ==
    \A tc \in TestCases :
        LET out == execute(tc.pos, tc.queries, tc.exact_match, <<0, tc.fields>>) IN
        /\ out[1] = tc.status
        /\ Len(out[2]) = Len(tc.fields)

(***************************************************************************)
(* fileaudit.operators.InputReader.run, as fileaudit/operators_test.py     *)
(* runs it against a subprocess.Popen it controls.  A text is the sequence *)
(* of its parts.                                                           *)
(***************************************************************************)
MaxLines == 2

StdoutLines == {"Line 1", "Line 2", "Line 3"}

Processes ==
    [raises : BOOLEAN, returncode : {0, 1, 2}, stdout : SeqsUpTo(StdoutLines, MaxLines)]

ExitedText(returncode) == <<"Command exited with non-zero code: ", returncode>>

ErrorText == <<"Error: ", "Something went wrong">>

\* A variant of run that yields the lines it read before it looks at the
\* exit code.
run_LinesBeforeExitCode(p) ==
    IF p.raises THEN << <<1, ErrorText>> >>
    ELSE [k \in DOMAIN p.stdout |-> <<0, <<p.stdout[k]>>>>] \o
         (IF p.returncode = 0 THEN <<>> ELSE << <<1, ExitedText(p.returncode)>> >>)

\* InputReader(command).run(): everything the generator yields for a process.
run(p) ==
    IF p.raises THEN << <<1, ErrorText>> >>
    ELSE IF p.returncode = 0
    THEN [k \in DOMAIN p.stdout |-> <<0, <<p.stdout[k]>>>>]
    ELSE << <<1, ExitedText(p.returncode)>> >>

\* next(): the generator yields its next item.
Yield ==
    /\ reader_pc = "running"
    /\ Len(output_lines) < Len(run(process))
    /\ output_lines' = Append(output_lines, run(process)[Len(output_lines) + 1])
    /\ UNCHANGED <<process, reader_pc>>
    /\ UNCHANGED nonReaderVars

\* next(): the generator is exhausted.
Exhaust ==
    /\ reader_pc = "running"
    /\ Len(output_lines) = Len(run(process))
    /\ reader_pc' = "exhausted"
    /\ UNCHANGED <<process, output_lines>>
    /\ UNCHANGED nonReaderVars

InitReader ==
    /\ process \in Processes
    /\ reader_pc = "running"
    /\ output_lines = <<>>
    /\ IngestIdle
    /\ PathIdle
    /\ IndexIdle
    /\ FilterIdle
    /\ LinuxIdle
    /\ RegistrationIdle
    /\ ConfigIdle
    /\ DBIdle

NextReader ==
    \/ Yield
    \/ Exhaust

SpecReader == InitReader /\ [][NextReader]_vars

(***************************************************************************)
(* IndalekoLinuxLocalIndexer.index().                                      *)
(***************************************************************************)
MaxTree == 3

\* self.build_stat_dict(name, root) of IndalekoIndexer: None when the stat
\* of the entry fails, the tuple whose first element is the stat dict
\* otherwise.
linux_build_stat_dict(entry) ==
    IF entry.stat_ok THEN <<[file |-> entry.name, in_dirs |-> entry.in_dirs]>> ELSE None

\* The body of the inner loop after the counting: if entry is not None: ...
AppendEntry(entry) ==
    LET result == linux_build_stat_dict(entry) IN
    /\ linux_data' = IF result # None THEN Append(linux_data, result[1]) ELSE linux_data
    /\ visited' = visited + 1
    /\ UNCHANGED <<linux_pc, tree>>
    /\ UNCHANGED nonLinuxVars

\* One pass of the inner loop for a name in dirs.
IndexDirectoryEntry ==
    /\ linux_pc = "walking"
    /\ visited < Len(tree)
    /\ tree[visited + 1].in_dirs
    /\ linux_dir_count' = linux_dir_count + 1
    /\ UNCHANGED linux_file_count
    /\ AppendEntry(tree[visited + 1])

\* One pass of the inner loop for a name in files.
IndexFileEntry ==
    /\ linux_pc = "walking"
    /\ visited < Len(tree)
    /\ ~tree[visited + 1].in_dirs
    /\ linux_file_count' = linux_file_count + 1
    /\ UNCHANGED linux_dir_count
    /\ AppendEntry(tree[visited + 1])

\* return data
LinuxReturn ==
    /\ linux_pc = "walking"
    /\ visited = Len(tree)
    /\ linux_pc' = "returned"
    /\ UNCHANGED <<tree, visited, linux_data, linux_dir_count, linux_file_count>>
    /\ UNCHANGED nonLinuxVars

TreeEntries == [name : {"a", "b"}, in_dirs : BOOLEAN, stat_ok : BOOLEAN]

InitLinux ==
    /\ linux_pc = "walking"
    /\ tree \in SeqsUpTo(TreeEntries, MaxTree)
    /\ visited = 0
    /\ linux_data = <<>>
    /\ linux_dir_count = 0
    /\ linux_file_count = 0
    /\ IngestIdle
    /\ PathIdle
    /\ IndexIdle
    /\ FilterIdle
    /\ ReaderIdle
    /\ RegistrationIdle
    /\ ConfigIdle
    /\ DBIdle

NextLinux ==
    \/ IndexDirectoryEntry
    \/ IndexFileEntry
    \/ LinuxReturn

SpecLinux == InitLinux /\ [][NextLinux]_vars

(***************************************************************************)
(* IndalekoActivityDataProviderRegistrationService: register_provider,     *)
(* delete_provider, lookup_provider_by_identifier; and the constructor of  *)
(* IADPLocationRegistration.  The provider collection is the sequence of   *)
(* its documents; a registration object is the document it was made from.  *)
(***************************************************************************)
MaxRegistrations == 3

indaleko_activity_provider_location_source_uuid == "04c82f31-07d8-409c-9dd3-cbc661b7756d"

ProviderIdentifiers == {indaleko_activity_provider_location_source_uuid, "other-provider-uuid"}

\* self.activity_providers.find_entries(_key=identifier)
find_entries(identifier) ==
    SelectSeq(activity_providers, LAMBDA doc : doc._key = identifier)

\* lookup_provider_by_identifier: None, the list of the one registration,
\* or NotImplementedError for duplicates.
lookup_provider_by_identifier(identifier) ==
    LET providers == find_entries(identifier) IN
    IF Len(providers) = 0 THEN [outcome |-> "None", value |-> <<>>]
    ELSE IF Len(providers) > 1 THEN [outcome |-> "NotImplementedError", value |-> <<>>]
    ELSE [outcome |-> "list", value |-> <<providers[1]>>]

\* A variant of the test of register_provider that never finds a provider.
ProviderExists_Never(identifier) == FALSE

\* existing_provider is not None and len(existing_provider) > 0
ProviderExists(identifier) ==
    LET existing_provider == lookup_provider_by_identifier(identifier) IN
    existing_provider.outcome = "list" /\ Len(existing_provider.value) > 0

\* The uuid.uuid4() drawn for the data collection of a new registration.
uuid4 == uuid4_count + 1

\* IndalekoActivityDataProviderRegistration(**kwargs).to_dict()
Registration(identifier) == [_key |-> identifier, ActivityCollection |-> uuid4]

\* register_provider(Identifier=identifier, CreateCollection=create_collection):
\* what it leaves in the database and what it returns.
register_provider(identifier, create_collection) ==
    [activity_providers |-> Append(activity_providers, Registration(identifier)),
     data_collections |->
         IF create_collection THEN data_collections \cup {uuid4} ELSE data_collections,
     result |-> <<Registration(identifier), IF create_collection THEN uuid4 ELSE NoCollection>>]

\* A call: which one, for which provider, what its lookup of the provider
\* gave, how it ended, and whether it inserted a registration.
Called(op, identifier, lookup, outcome, registered) ==
    [op |-> op, identifier |-> identifier, lookup |-> lookup, outcome |-> outcome,
     registered |-> registered]

\* register_provider for a provider that is not registered.
RegisterProvider ==
    \E identifier \in ProviderIdentifiers, create_collection \in BOOLEAN :
        /\ uuid4_count < MaxRegistrations
        /\ lookup_provider_by_identifier(identifier).outcome # "NotImplementedError"
        /\ ~ProviderExists(identifier)
        /\ LET after == register_provider(identifier, create_collection) IN
            /\ activity_providers' = after.activity_providers
            /\ data_collections' = after.data_collections
        /\ uuid4_count' = uuid4_count + 1
        /\ last_call' = Called("register_provider", identifier,
                               lookup_provider_by_identifier(identifier).outcome,
                               "returned", TRUE)
        /\ UNCHANGED location_registration
        /\ UNCHANGED nonRegistrationVars

\* register_provider raises NotImplementedError: the provider exists, or
\* the lookup found duplicates.
RegisterProviderRaises ==
    \E identifier \in ProviderIdentifiers :
        /\ \/ lookup_provider_by_identifier(identifier).outcome = "NotImplementedError"
           \/ ProviderExists(identifier)
        /\ last_call' = Called("register_provider", identifier,
                               lookup_provider_by_identifier(identifier).outcome,
                               "NotImplementedError", FALSE)
        /\ UNCHANGED <<activity_providers, data_collections, uuid4_count, location_registration>>
        /\ UNCHANGED nonRegistrationVars

\* delete_provider: the document goes, the data collection stays.
DeleteProvider ==
    \E identifier \in ProviderIdentifiers :
        LET existing_provider == lookup_provider_by_identifier(identifier) IN
        /\ activity_providers' =
               IF existing_provider.outcome = "list"
               THEN SelectSeq(activity_providers, LAMBDA doc : doc._key # identifier)
               ELSE activity_providers
        /\ last_call' = Called("delete_provider", identifier, existing_provider.outcome,
                               IF existing_provider.outcome = "NotImplementedError"
                               THEN "NotImplementedError" ELSE "returned", FALSE)
        /\ UNCHANGED <<data_collections, uuid4_count, location_registration>>
        /\ UNCHANGED nonRegistrationVars

\* IADPLocationRegistration() when no registration is found: register_service.
ConstructLocationRegisters ==
    LET identifier == indaleko_activity_provider_location_source_uuid IN
    /\ ~location_registration.initialized
    /\ uuid4_count < MaxRegistrations
    /\ lookup_provider_by_identifier(identifier).outcome = "None"
    /\ LET after == register_provider(identifier, TRUE) IN
        /\ activity_providers' = after.activity_providers
        /\ data_collections' = after.data_collections
        /\ location_registration' =
               [initialized |-> TRUE,
                activity_provider |-> after.result[1]._key,
                activity_provider_collection |-> after.result[2]]
    /\ uuid4_count' = uuid4_count + 1
    /\ last_call' = Called("IADPLocationRegistration", identifier, "None", "returned", TRUE)
    /\ UNCHANGED nonRegistrationVars

\* IADPLocationRegistration() when the lookup returns a registration, or
\* raises.
ConstructLocationFinds ==
    LET identifier == indaleko_activity_provider_location_source_uuid
        registration == lookup_provider_by_identifier(identifier)
    IN  /\ ~location_registration.initialized
        /\ registration.outcome # "None"
        /\ IF registration.outcome = "list" /\ Len(registration.value) = 2
           THEN /\ location_registration' =
                       [initialized |-> TRUE,
                        activity_provider |-> registration.value[1]._key,
                        activity_provider_collection |-> registration.value[2]]
                /\ last_call' = Called("IADPLocationRegistration", identifier,
                                       registration.outcome, "returned", FALSE)
           ELSE /\ UNCHANGED location_registration
                /\ last_call' = Called("IADPLocationRegistration", identifier,
                                       registration.outcome,
                                       IF registration.outcome = "list"
                                       THEN "AssertionError" ELSE "NotImplementedError",
                                       FALSE)
        /\ UNCHANGED <<activity_providers, data_collections, uuid4_count>>
        /\ UNCHANGED nonRegistrationVars

\* IADPLocationRegistration() once the singleton is initialized: return.
ConstructLocationAgain ==
    /\ location_registration.initialized
    /\ last_call' = Called("IADPLocationRegistration",
                           indaleko_activity_provider_location_source_uuid,
                           "not called", "returned", FALSE)
    /\ UNCHANGED <<activity_providers, data_collections, uuid4_count, location_registration>>
    /\ UNCHANGED nonRegistrationVars

InitRegistration ==
    /\ activity_providers = <<>>
    /\ data_collections = {}
    /\ uuid4_count = 0
    /\ location_registration =
           [initialized |-> FALSE, activity_provider |-> None,
            activity_provider_collection |-> NoCollection]
    /\ last_call = Called("none", None, "not called", "none", FALSE)
    /\ IngestIdle
    /\ PathIdle
    /\ IndexIdle
    /\ FilterIdle
    /\ ReaderIdle
    /\ LinuxIdle
    /\ ConfigIdle
    /\ DBIdle

NextRegistration ==
    \/ RegisterProvider
    \/ RegisterProviderRaises
    \/ DeleteProvider
    \/ ConstructLocationRegisters
    \/ ConstructLocationFinds
    \/ ConstructLocationAgain

SpecRegistration == InitRegistration /\ [][NextRegistration]_vars

(***************************************************************************)
(* IndalekoMachineConfig: set_captured, get_captured, to_json and          *)
(* load_config_from_db.  A timestamp value is a sequence whose head is its *)
(* Python type: <<"str", v>>, <<"datetime", v>>, or "dict" followed by the *)
(* encoding of the dict's 'Value' (its 'Label' being 'Timestamp').         *)
(***************************************************************************)
IsoTimestamps == {"2024-01-01T00:00:00+00:00", "2024-06-30T12:00:00+00:00",
                  "2024-12-31T23:59:59+00:00"}

TimestampStrings == IsoTimestamps \cup {"yesterday"}

Str(v) == <<"str", v>>

Datetime(v) == <<"datetime", v>>

\* {'Label' : 'Timestamp', 'Value' : value}
TimestampDict(value) == <<"dict">> \o value

\* timestamp['Value'] of a dict.
ValueOf(timestamp) == Tail(timestamp)

\* self.validate_iso_timestamp(value)
validate_iso_timestamp(value) == Head(value) = "str" /\ value[2] \in IsoTimestamps

\* set_captured(timestamp) on a config whose captured is `current`.  The
\* assignment after the if/elif/else runs for a dict too, with the dict as
\* 'Value'; `type(timestamp) is datetime` compares with the module datetime
\* and is never true.
set_captured(timestamp, current) ==
    IF Head(timestamp) = "dict"
    THEN IF Head(ValueOf(timestamp)) = "str" /\ validate_iso_timestamp(ValueOf(timestamp))
         THEN [outcome |-> "returned", captured |-> TimestampDict(timestamp)]
         ELSE [outcome |-> "AssertionError", captured |-> current]
    ELSE IF Head(timestamp) = "str"
    THEN [outcome |-> "returned", captured |-> TimestampDict(timestamp)]
    ELSE [outcome |-> "AssertionError", captured |-> current]

\* get_captured()
get_captured == captured

\* machine_config.set_captured(timestamp) with a string or a datetime, as
\* build_config calls it.
SetCaptured ==
    \E timestamp \in {Str(v) : v \in TimestampStrings} \cup {Datetime(v) : v \in IsoTimestamps} :
        LET result == set_captured(timestamp, captured) IN
        /\ captured' = result.captured
        /\ captured_before' = timestamp
        /\ config_call' = [op |-> "set_captured", outcome |-> result.outcome]
        /\ UNCHANGED entry_captured
        /\ UNCHANGED nonConfigVars

\* machine_config.set_captured(machine_config.get_captured())
SetCapturedToGetCaptured ==
    LET result == set_captured(get_captured, captured) IN
    /\ captured' = result.captured
    /\ captured_before' = get_captured
    /\ config_call' = [op |-> "set_captured(get_captured())", outcome |-> result.outcome]
    /\ UNCHANGED entry_captured
    /\ UNCHANGED nonConfigVars

\* to_json(): record['captured'] = self.captured, stored as the document.
StoreConfig ==
    /\ entry_captured' = captured
    /\ captured_before' = captured
    /\ config_call' = [op |-> "to_json", outcome |-> "returned"]
    /\ UNCHANGED captured
    /\ UNCHANGED nonConfigVars

\* load_config_from_db(machine_id): set_captured(entry['captured']) on a new
\* IndalekoMachineConfig; when it raises, the config in hand stays.
LoadConfig ==
    /\ entry_captured # <<>>
    /\ LET result == set_captured(entry_captured, captured) IN
        /\ captured' = result.captured
        /\ config_call' = [op |-> "load_config_from_db", outcome |-> result.outcome]
    /\ captured_before' = entry_captured
    /\ UNCHANGED entry_captured
    /\ UNCHANGED nonConfigVars

\* IndalekoMachineConfig(timestamp): captured is the dict of an ISO string.
InitConfig ==
    /\ captured \in {TimestampDict(Str(v)) : v \in IsoTimestamps}
    /\ entry_captured = <<>>
    /\ captured_before = <<>>
    /\ config_call = [op |-> "none", outcome |-> "none"]
    /\ IngestIdle
    /\ PathIdle
    /\ IndexIdle
    /\ FilterIdle
    /\ ReaderIdle
    /\ LinuxIdle
    /\ RegistrationIdle
    /\ DBIdle

NextConfig ==
    \/ SetCaptured
    \/ SetCapturedToGetCaptured
    \/ StoreConfig
    \/ LoadConfig

SpecConfig == InitConfig /\ [][NextConfig]_vars

(***************************************************************************)
(* IndalekoDBConfig: __init__, start, setup_database, set_admin_password   *)
(* and update_ipaddr.                                                      *)
(***************************************************************************)
MaxStarts == 3
MaxProbes == 3

\* self.config['database']['database']
dbname == "Indaleko"

\* setup_database(dbname): the assert that the database is not there, then
\* create_database.
setup_database(existing) ==
    IF dbname \in existing
    THEN [outcome |-> "AssertionError", databases |-> existing]
    ELSE [outcome |-> "returned", databases |-> existing \cup {dbname}]

\* start() is called: the test of self.started, then the readiness loop.
StartBegins ==
    /\ db_pc = "idle"
    /\ starts < MaxStarts
    /\ starts' = starts + 1
    /\ IF started
       THEN /\ start_outcome' = "returned at once"
            /\ UNCHANGED db_pc
       ELSE /\ start_outcome' = "none"
            /\ db_pc' = "probing"
    /\ UNCHANGED <<started, updated, server_ready, databases, starts_returned, probes,
                   connections, setup_calls>>
    /\ UNCHANGED nonDbVars

\* requests.get raises RequestException: sleep and try again.
ProbeFails ==
    /\ db_pc = "probing"
    /\ ~server_ready
    /\ probes < MaxProbes
    /\ probes' = probes + 1
    /\ UNCHANGED <<db_pc, started, updated, server_ready, databases, starts, starts_returned,
                   connections, setup_calls, start_outcome>>
    /\ UNCHANGED nonDbVars

\* The container with the database server comes up.
ServerComesUp ==
    /\ ~server_ready
    /\ server_ready' = TRUE
    /\ UNCHANGED <<db_pc, started, updated, databases, starts, starts_returned, probes,
                   connections, setup_calls, start_outcome>>
    /\ UNCHANGED nonDbVars

\* The readiness request is answered: connect, set the database up if the
\* config is new, open the user's database.  self.started is not assigned.
StartConnects ==
    /\ db_pc = "probing"
    /\ server_ready
    /\ probes' = probes + 1
    /\ connections' = connections + 1
    /\ LET setup == IF updated
                    THEN setup_database(databases)
                    ELSE [outcome |-> "returned", databases |-> databases]
       IN  /\ databases' = setup.databases
           /\ setup_calls' = IF updated THEN setup_calls + 1 ELSE setup_calls
           /\ start_outcome' = setup.outcome
           /\ starts_returned' =
                  IF setup.outcome = "returned" THEN starts_returned + 1 ELSE starts_returned
    /\ db_pc' = "idle"
    /\ UNCHANGED <<started, updated, server_ready, starts>>
    /\ UNCHANGED nonDbVars

\* set_admin_password(passwd): self.updated = True
SetAdminPassword ==
    /\ db_pc = "idle"
    /\ ~updated
    /\ updated' = TRUE
    /\ UNCHANGED <<db_pc, started, server_ready, databases, starts, starts_returned, probes,
                   connections, setup_calls, start_outcome>>
    /\ UNCHANGED nonDbVars

\* update_ipaddr(ipaddr): the config is saved, self.updated = False
UpdateIpaddr ==
    /\ db_pc = "idle"
    /\ updated
    /\ updated' = FALSE
    /\ UNCHANGED <<db_pc, started, server_ready, databases, starts, starts_returned, probes,
                   connections, setup_calls, start_outcome>>
    /\ UNCHANGED nonDbVars

\* IndalekoDBConfig(config_file): a config that was loaded, or a new one;
\* a server that may have the database already.
InitDB ==
    /\ db_pc = "idle"
    /\ started = FALSE
    /\ updated \in BOOLEAN
    /\ server_ready \in BOOLEAN
    /\ databases \in {{}, {dbname}}
    /\ starts = 0
    /\ starts_returned = 0
    /\ probes = 0
    /\ connections = 0
    /\ setup_calls = 0
    /\ start_outcome = "none"
    /\ IngestIdle
    /\ PathIdle
    /\ IndexIdle
    /\ FilterIdle
    /\ ReaderIdle
    /\ LinuxIdle
    /\ RegistrationIdle
    /\ ConfigIdle

NextDB ==
    \/ StartBegins
    \/ ProbeFails
    \/ ServerComesUp
    \/ StartConnects
    \/ SetAdminPassword
    \/ UpdateIpaddr

SpecDB == InitDB /\ [][NextDB]_vars

(***************************************************************************)
(* Vocabulary of the properties.                                           *)
(***************************************************************************)
\* The parent directory path of a path: the path without its last component.
ParentPath(p) == SubSeq(p, 1, Len(p) - 1)

\* The objects of the run, in the order in which ingest() links and writes them.
RunObjects == dir_data \o file_data

Finished == pc = "done"

DistinctIds(items) ==
    \A i, j \in DOMAIN items :
        i # j => items[i].ObjectIdentifier # items[j].ObjectIdentifier

\* The edges of the batch of the given kind that join the two identifiers.
EdgesBetween(batch, kind, a, b) ==
    {k \in DOMAIN batch :
        /\ batch[k].kind = kind
        /\ {batch[k].object1, batch[k].object2} = {a, b}}

\* The endpoint of an edge that stands for the child, as ingest() builds it.
ChildEndpoint(e) == IF e.kind = "Contains" THEN e.object1 ELSE e.object2

HasResolvableParent(obj) == ParentPath(obj.Path) \in DOMAIN dirmap

Orphans == {i \in DOMAIN RunObjects : ~HasResolvableParent(RunObjects[i])}

\* A name contains the token / a reserved character.
Occurs(token, name) ==
    \E i \in 1..(Len(name) - Len(token) + 1) :
        SubSeq(name, i, i + Len(token) - 1) = token

TokenFree(name) ==
    \A k \in DOMAIN posix_to_win32 : ~Occurs(posix_to_win32[k].posix, name)

ReservedFree(name) ==
    \A k \in DOMAIN win32_to_posix : ~Occurs(win32_to_posix[k].win32, name)

PosixRoundTripDone == direction = [first |-> "posix_to_windows", step |-> 2]
WindowsRoundTripDone == direction = [first |-> "windows_to_posix", step |-> 2]

\* The records of the two scenarios, with any identifiers.
IsRecord(r, path, folder) ==
    /\ r.path_display = path
    /\ r.FolderMetadata = folder
    /\ r.FileMetadata = ~folder

IdOf(items, path) ==
    (CHOOSE r \in {items[i] : i \in DOMAIN items} : r.path_display = path).ObjectIdentifier

ScenarioA ==
    /\ Len(input_file) = 3
    /\ DistinctIds(input_file)
    /\ \E i \in 1..3 : IsRecord(input_file[i], <<"root">>, TRUE)
    /\ \E i \in 1..3 : IsRecord(input_file[i], <<"root", "sub">>, TRUE)
    /\ \E i \in 1..3 : IsRecord(input_file[i], <<"root", "sub", "b.txt">>, FALSE)

ScenarioB ==
    /\ Len(input_file) = 2
    /\ DistinctIds(input_file)
    /\ \E i \in 1..2 : IsRecord(input_file[i], <<"root", "sub">>, TRUE)
    /\ \E i \in 1..2 : IsRecord(input_file[i], <<"root", "sub", "b.txt">>, FALSE)

(***************************************************************************)
(* C1.  At the end of a run whose records carry pairwise distinct          *)
(* identifiers, every object whose parent directory path is a key of       *)
(* dirmap has exactly one Contains edge and exactly one ContainedBy edge   *)
(* in the relationship batch joining it and its parent directory.          *)
(***************************************************************************)
C1_PairedEdgesForResolvableParents ==
    (Finished /\ DistinctIds(input_file)) =>
        \A i \in DOMAIN RunObjects :
            LET obj == RunObjects[i] IN
            HasResolvableParent(obj) =>
                LET parent_id == dirmap[ParentPath(obj.Path)] IN
                /\ Cardinality(EdgesBetween(relationship_batch, "Contains",
                                            obj.ObjectIdentifier, parent_id)) = 1
                /\ Cardinality(EdgesBetween(relationship_batch, "ContainedBy",
                                            obj.ObjectIdentifier, parent_id)) = 1

(***************************************************************************)
(* C2.  At the end of a run whose records carry pairwise distinct          *)
(* identifiers, no edge of the relationship batch has as its child         *)
(* endpoint an object whose parent directory path is not a key of dirmap,  *)
(* and orphan_count is the number of those objects.                        *)
(***************************************************************************)
C2_OrphansGetNoEdgesAndAreCounted ==
    (Finished /\ DistinctIds(input_file)) =>
        /\ \A i \in Orphans : \A k \in DOMAIN relationship_batch :
               ChildEndpoint(relationship_batch[k]) # RunObjects[i].ObjectIdentifier
        /\ orphan_count = Cardinality(Orphans)

(***************************************************************************)
(* C3.  At the end of every run,                                           *)
(* edge_count = 2 * (number of objects of the run - orphan_count).         *)
(***************************************************************************)
C3_EdgeCountFormula ==
    Finished => edge_count = 2 * (Len(RunObjects) - orphan_count)

(***************************************************************************)
(* C4.  Once the object batch is written, dir_count + file_count is the    *)
(* number of records in it.                                                *)
(***************************************************************************)
C4_CountsMatchObjectBatch ==
    object_batch # NotWritten => dir_count + file_count = Len(object_batch)

C4_Witness ==
    /\ Finished
    /\ dir_count >= 1
    /\ file_count >= 1
    /\ Len(object_batch) = MaxItems

(***************************************************************************)
(* C5.  Once both batches are written, both endpoints of every edge of     *)
(* the relationship batch are ObjectIdentifiers of records of the object   *)
(* batch of the run.                                                       *)
(***************************************************************************)
BatchIds == {object_batch[i].ObjectIdentifier : i \in DOMAIN object_batch}

C5_NoDanglingEdges ==
    (object_batch # NotWritten /\ relationship_batch # NotWritten) =>
        \A k \in DOMAIN relationship_batch :
            /\ relationship_batch[k].object1 \in BatchIds
            /\ relationship_batch[k].object2 \in BatchIds

C5_Witness ==
    /\ Finished
    /\ Len(relationship_batch) >= 4
    /\ file_count >= 1
    /\ \E k \in DOMAIN relationship_batch :
           relationship_batch[k].object1 # relationship_batch[k].object2

(***************************************************************************)
(* C6.  As claimed: in the object batch of every run, no two records have  *)
(* the same ObjectIdentifier.                                              *)
(***************************************************************************)
C6_BatchIdsUniqueForEveryInput ==
    object_batch # NotWritten => DistinctIds(object_batch)

(***************************************************************************)
(* C6, amended.  In the object batch of a run whose provider records       *)
(* carry pairwise distinct ObjectIdentifiers, no two records have the      *)
(* same ObjectIdentifier.                                                  *)
(***************************************************************************)
C6_BatchIdsUniqueForDistinctInput ==
    (object_batch # NotWritten /\ DistinctIds(input_file)) =>
        DistinctIds(object_batch)

C6_Witness ==
    /\ Finished
    /\ DistinctIds(input_file)
    /\ Len(input_file) = MaxItems
    /\ dir_count >= 1
    /\ file_count >= 1

(***************************************************************************)
(* C7.  As claimed: for every name that contains none of the nine tokens,  *)
(* windows_to_posix(posix_to_windows(name)) is the name.                   *)
(***************************************************************************)
C7_PosixRoundTripOfTokenFreeNames ==
    (PosixRoundTripDone /\ TokenFree(filename)) => restored = filename

(***************************************************************************)
(* C7, amended.  For every name that contains none of the nine reserved    *)
(* characters, windows_to_posix(posix_to_windows(name)) is the name.       *)
(***************************************************************************)
C7_PosixRoundTripOfReservedFreeNames ==
    (PosixRoundTripDone /\ ReservedFree(filename)) => restored = filename

C7_Witness ==
    /\ PosixRoundTripDone
    /\ ReservedFree(filename)
    /\ converted # filename
    /\ restored = filename

(***************************************************************************)
(* C8.  For every name that contains none of the nine tokens (it may       *)
(* contain reserved characters and fragments of tokens),                   *)
(* posix_to_windows(windows_to_posix(name)) is the name.                   *)
(***************************************************************************)
C8_WindowsRoundTripOfTokenFreeNames ==
    (WindowsRoundTripDone /\ TokenFree(filename)) => restored = filename

(***************************************************************************)
(* C9.  Scenario A: the run over root (directory), root/sub (directory)    *)
(* and root/sub/b.txt (file) ends with exactly four edges, a Contains and  *)
(* a ContainedBy edge joining root and root/sub and a Contains and a       *)
(* ContainedBy edge joining root/sub and b.txt, with edge_count = 4 and    *)
(* orphan_count = 0.                                                       *)
(***************************************************************************)
C9_ScenarioA ==
    (Finished /\ ScenarioA) =>
        LET root == IdOf(input_file, <<"root">>)
            sub == IdOf(input_file, <<"root", "sub">>)
            b == IdOf(input_file, <<"root", "sub", "b.txt">>) IN
        /\ Len(relationship_batch) = 4
        /\ Cardinality(EdgesBetween(relationship_batch, "Contains", root, sub)) = 1
        /\ Cardinality(EdgesBetween(relationship_batch, "ContainedBy", sub, root)) = 1
        /\ Cardinality(EdgesBetween(relationship_batch, "Contains", sub, b)) = 1
        /\ Cardinality(EdgesBetween(relationship_batch, "ContainedBy", b, sub)) = 1
        /\ edge_count = 4
        /\ orphan_count = 0

(***************************************************************************)
(* C10.  Scenario B: the run over root/sub (directory) and root/sub/b.txt  *)
(* (file), root not captured, ends with no edge whose child endpoint is    *)
(* root/sub, exactly two edges, a Contains and a ContainedBy edge joining  *)
(* b.txt and root/sub, with edge_count = 2 and orphan_count = 1.           *)
(***************************************************************************)
C10_ScenarioB ==
    (Finished /\ ScenarioB) =>
        LET sub == IdOf(input_file, <<"root", "sub">>)
            b == IdOf(input_file, <<"root", "sub", "b.txt">>) IN
        /\ \A k \in DOMAIN relationship_batch :
               ChildEndpoint(relationship_batch[k]) # sub
        /\ Len(relationship_batch) = 2
        /\ Cardinality(EdgesBetween(relationship_batch, "Contains", sub, b)) = 1
        /\ Cardinality(EdgesBetween(relationship_batch, "ContainedBy", b, sub)) = 1
        /\ edge_count = 2
        /\ orphan_count = 1

(***************************************************************************)
(* C11.  A load descriptor, built or printed, is of an artifact whose      *)
(* write has completed, and names the path of that artifact.               *)
(***************************************************************************)
DescribesWrittenArtifact(descriptor) ==
    /\ descriptor.collection = "Objects" =>
           (object_batch # NotWritten /\ descriptor.file = ObjectsFile)
    /\ descriptor.collection = "Relationships" =>
           (relationship_batch # NotWritten /\ descriptor.file = EdgeFile)

C11_ArtifactWrittenBeforeDescriptor ==
    /\ DescribesWrittenArtifact(load_string)
    /\ \A k \in DOMAIN load_strings : DescribesWrittenArtifact(load_strings[k])

(***************************************************************************)
(* C12.  When the write of the object batch or of the relationship batch   *)
(* has raised, the run has printed no load descriptor.                     *)
(***************************************************************************)
WriteFailed ==
    failure \in {"write_data_to_file(objects)", "write_data_to_file(relationships)"}

C12_NoDescriptorAfterFailedWrite ==
    WriteFailed => load_strings = <<>>

(***************************************************************************)
(* C13.  When the input file is missing, has a suffix other than .json or  *)
(* .jsonl, or does not decode to a list, ingest() raises in                *)
(* load_indexer_data_from_file: it goes nowhere else, no artifact is       *)
(* written, no load descriptor is printed and no counter is changed.       *)
(***************************************************************************)
InputFault ==
    \/ ~input_source.exists
    \/ input_source.suffix \notin {".json", ".jsonl"}
    \/ input_source.decodes_to # "list"

C13_InputFaultFailsBeforeAnyOutput ==
    InputFault =>
        /\ pc \in {"start", "raised"}
        /\ pc = "start" => ENABLED LoadFails
        /\ pc = "raised" => failure = "load_indexer_data_from_file"
        /\ object_batch = NotWritten
        /\ relationship_batch = NotWritten
        /\ load_strings = <<>>
        /\ dir_count = 0 /\ file_count = 0 /\ edge_count = 0 /\ orphan_count = 0

C13_Witness ==
    /\ InputFault
    /\ pc = "raised"
    /\ Len(input_file) = MaxItems
    /\ \E i \in DOMAIN input_file : input_file[i].FolderMetadata

(***************************************************************************)
(* C14.  In a run whose input loads and in which exactly one record lacks  *)
(* its ObjectIdentifier, the other records being as the indexer writes     *)
(* them, normalize_index_data does not end the run, and the finished run   *)
(* has written every other record to the object batch.                     *)
(***************************************************************************)
LacksIdentifier(r) ==
    /\ r.ObjectIdentifier = Absent
    /\ [r EXCEPT !.ObjectIdentifier = "uuid-1"] \in MarkedRecords

OneRecordLacksIdentifier ==
    /\ input_source = ListSource
    /\ \E i \in DOMAIN input_file :
        /\ LacksIdentifier(input_file[i])
        /\ \A j \in DOMAIN input_file : j # i => input_file[j] \in MarkedRecords

C14_OnlyTheRecordWithoutIdentifierIsDropped ==
    OneRecordLacksIdentifier =>
        /\ failure # "normalize_index_data"
        /\ Finished =>
              \A j \in DOMAIN input_file :
                  input_file[j] \in MarkedRecords =>
                      \E k \in DOMAIN object_batch :
                          object_batch[k] = normalize_index_data(input_file[j])

(***************************************************************************)
(* C18.  In a run whose input loads and whose records all carry their      *)
(* ObjectIdentifier, normalize_index_data does not end the run whatever    *)
(* optional metadata is missing; every record yields an object, with Size  *)
(* 0 when the record has no size or is a directory, and with no            *)
(* Timestamps when the record has no timestamps.                           *)
(***************************************************************************)
OnlyOptionalMetadataMissing ==
    /\ input_source = ListSource
    /\ \A i \in DOMAIN input_file : input_file[i].ObjectIdentifier # Absent

YieldsObjectWithDefaults(r) ==
    \E k \in DOMAIN RunObjects :
        LET obj == RunObjects[k] IN
        /\ obj.ObjectIdentifier = r.ObjectIdentifier
        /\ obj.Path = r.path_display
        /\ (r.size = NoSize \/ IsDirectoryObject(obj)) => obj.Size = 0
        /\ (r.client_modified = Absent /\ r.server_modified = Absent) =>
               obj.Timestamps = <<>>

C18_MissingOptionalMetadataDefaults ==
    OnlyOptionalMetadataMissing =>
        /\ failure # "normalize_index_data"
        /\ pc \notin {"start", "loaded", "raised"} =>
               \A i \in DOMAIN input_file : YieldsObjectWithDefaults(input_file[i])

(***************************************************************************)
(* C19.  At the end of a run whose records carry pairwise distinct         *)
(* identifiers, every object whose parent path is not in dirmap is in the  *)
(* object batch and counted by dir_count + file_count, and no edge of the  *)
(* relationship batch has it at either end.                                *)
(***************************************************************************)
C19_OrphansLoseOnlyTheirEdges ==
    (Finished /\ DistinctIds(input_file)) =>
        /\ dir_count + file_count = Len(RunObjects)
        /\ \A i \in Orphans :
            /\ \E k \in DOMAIN object_batch : object_batch[k] = RunObjects[i]
            /\ \A k \in DOMAIN relationship_batch :
                   RunObjects[i].ObjectIdentifier \notin
                       {relationship_batch[k].object1, relationship_batch[k].object2}

(***************************************************************************)
(* Vocabulary of the properties of index().                                *)
(***************************************************************************)
DriveOf(root) == splitdrive(root)[1][1]

\* The entry of the walk is in the list index() builds.
Captured(entry) ==
    \E j \in DOMAIN index_data :
        /\ index_data[j].file = entry.name
        /\ index_data[j].path = entry.root

\* The entries index() has gone through.
Handled == 1..(position - 1)

\* The number of entries of the captured sequence whose drive is not the
\* drive of the entry captured before them (of none, for the first).
DriveChanges(entries) ==
    Cardinality({j \in DOMAIN entries :
        DriveOf(entries[j].path) #
            (IF j = 1 THEN None ELSE DriveOf(entries[j - 1].path))})

(***************************************************************************)
(* C15.  A walk with an entry whose stat fails does not make index()       *)
(* raise; of the entries index() has gone through, those whose stat        *)
(* failed are not in the list and all those whose stat succeeded are.      *)
(***************************************************************************)
SomeStatFails == \E k \in DOMAIN walk : ~walk[k].stat_ok

C15_FailedStatIsSkippedAndWalkContinues ==
    SomeStatFails =>
        /\ index_pc # "raised"
        /\ \A k \in Handled : Captured(walk[k]) <=> walk[k].stat_ok

\* A failed stat leaves last_drive and last_uri of index() as they were.
SkipLeavesCacheUnchanged ==
    [][SkipEntry => UNCHANGED <<last_drive, last_uri>>]_vars

(***************************************************************************)
(* C16.  At every point of a run of index(), the number of calls of        *)
(* convert_windows_path_to_guid_uri so far is the number of drive changes  *)
(* in the sequence of entries captured so far.                             *)
(***************************************************************************)
C16_ResolverCalledOncePerDriveChange ==
    Len(resolved) = DriveChanges(index_data)

(***************************************************************************)
(* C17.  index() never raises, and every entry it has gone through whose   *)
(* stat succeeded and whose drive has no volume GUID is in the list with   *)
(* a URI on the bare drive letter, \\?\X: .                                *)
(***************************************************************************)
C17_UnmappedDriveFallsBackToLetterUri ==
    /\ index_pc # "raised"
    /\ \A k \in Handled :
        (walk[k].stat_ok /\ machine_config[DriveOf(walk[k].root)] = None) =>
            \E j \in DOMAIN index_data :
                /\ index_data[j].file = walk[k].name
                /\ index_data[j].path = walk[k].root
                /\ splitdrive(index_data[j].URI)[1] =
                       <<LetterPrefix, DriveOf(walk[k].root)>>

(***************************************************************************)
(* C20.  Once FilterFields(pos, queries, exact_match).execute((0, fields)) *)
(* has returned: its status is 0 if pos is an index of fields and          *)
(* fields[pos] matches one of the queries (contains it, or equals it when  *)
(* exact_match is set), and 1 otherwise; the list it returns is as long    *)
(* as fields.                                                              *)
(***************************************************************************)
Executed == res_arr # NotExecuted

QueryFound ==
    LET fields == input_arr[2] IN
    /\ pos \in 0..(Len(fields) - 1)
    /\ \E k \in DOMAIN queries :
        IF exact_match
        THEN fields[pos + 1] = queries[k]
        ELSE Occurs(queries[k], fields[pos + 1])

C20_FilterFieldsStatus ==
    Executed =>
        /\ res_arr[1] = (IF QueryFound THEN 0 ELSE 1)
        /\ Len(res_arr[2]) = Len(input_arr[2])

\* A field that contains the query without being equal to it is accepted.
C20_Witness ==
    /\ Executed
    /\ ~exact_match
    /\ res_arr[1] = 0
    /\ pos = 1
    /\ queries = << <<"b">> >>
    /\ input_arr[2] = << <<"a">>, <<"b", "b">>, <<"c">> >>


DirsWithPath(p) == {k \in DOMAIN dir_data : dir_data[k].Path = p}

LaterDir(p) ==
    dir_data[CHOOSE k \in DirsWithPath(p) : \A j \in DirsWithPath(p) : j <= k]

C22_LaterDirectoryWinsDuplicatePath ==
    (Finished /\ DistinctIds(input_file)) =>
        /\ \A p \in DOMAIN dirmap : dirmap[p] = LaterDir(p).ObjectIdentifier
        /\ dir_count = Len(dir_data)
        /\ \A k \in DOMAIN dir_data :
               \E j \in DOMAIN object_batch : object_batch[j] = dir_data[k]
        /\ \A i \in DOMAIN RunObjects :
            LET child == RunObjects[i]
                p == ParentPath(child.Path)
            IN  Cardinality(DirsWithPath(p)) >= 2 =>
                    \A k \in DirsWithPath(p) :
                        LET n == IF dir_data[k] = LaterDir(p) THEN 1 ELSE 0 IN
                        /\ Cardinality(EdgesBetween(relationship_batch, "Contains",
                               child.ObjectIdentifier, dir_data[k].ObjectIdentifier)) = n
                        /\ Cardinality(EdgesBetween(relationship_batch, "ContainedBy",
                               child.ObjectIdentifier, dir_data[k].ObjectIdentifier)) = n

(***************************************************************************)
(* C23.  In the relationship batch, the Contains edge of every linked      *)
(* object goes from the directory found for it in dirmap (object1) to the  *)
(* object (object2), and its ContainedBy edge from the object (object1) to *)
(* that directory (object2).                                               *)
(***************************************************************************)
\* The objects of the run that ingest() links, in the order of their edges.
LinkedObjects == SelectSeq(RunObjects, LAMBDA item : LookupKey(item) \in DOMAIN dirmap)

C23_ContainsGoesFromParentToChild ==
    relationship_batch # NotWritten =>
        \A k \in DOMAIN LinkedObjects :
            LET child == LinkedObjects[k].ObjectIdentifier
                parent == dirmap[LookupKey(LinkedObjects[k])]
                contains == relationship_batch[2 * k - 1]
                contained_by == relationship_batch[2 * k]
            IN  /\ contains.kind = "Contains"
                /\ contains.object1 = parent
                /\ contains.object2 = child
                /\ contained_by.kind = "ContainedBy"
                /\ contained_by.object1 = child
                /\ contained_by.object2 = parent

(***************************************************************************)
(* C25.  In the relationship batch of a run whose records carry pairwise   *)
(* distinct identifiers, no edge joins an object to itself.                *)
(***************************************************************************)
C25_NoSelfLoop ==
    (relationship_batch # NotWritten /\ DistinctIds(input_file)) =>
        \A k \in DOMAIN relationship_batch :
            relationship_batch[k].object1 # relationship_batch[k].object2


(***************************************************************************)
(* C24.  Every captured entry that is on the drive of the entry captured   *)
(* before it has the URI made of the volume URI resolved for that drive,   *)
(* the drive-relative directory and the name; so it has the volume part of *)
(* the URI of the entry before it.                                         *)
(***************************************************************************)
C24_SameDriveEntriesShareVolumeUri ==
    \A j \in DOMAIN index_data :
        (j > 1 /\ DriveOf(index_data[j].path) = DriveOf(index_data[j - 1].path)) =>
            /\ index_data[j].URI =
                   join(convert_windows_path_to_guid_uri(index_data[j].path),
                        splitdrive(index_data[j].path)[2], index_data[j].file)
            /\ splitdrive(index_data[j].URI)[1] = splitdrive(index_data[j - 1].URI)[1]


(***************************************************************************)
(* C30.  When IndalekoLinuxLocalIndexer.index returns, dir_count +         *)
(* file_count is the number of entries of the list it returns.             *)
(***************************************************************************)
C30_LinuxCountsMatchReturnedList ==
    linux_pc = "returned" => linux_dir_count + linux_file_count = Len(linux_data)


(***************************************************************************)
(* C26.  A construction of IADPLocationRegistration whose lookup finds the *)
(* registration in the provider collection returns without error, leaves   *)
(* activity_provider and activity_provider_collection set, and does not    *)
(* register the provider again.                                            *)
(***************************************************************************)
C26_ExistingRegistrationIsReused ==
    (last_call.op = "IADPLocationRegistration" /\ last_call.lookup = "list") =>
        /\ last_call.outcome = "returned"
        /\ ~last_call.registered
        /\ location_registration.initialized
        /\ location_registration.activity_provider =
               indaleko_activity_provider_location_source_uuid
        /\ location_registration.activity_provider_collection # NoCollection

(***************************************************************************)
(* C27.  The provider collection never holds two registrations with one    *)
(* Identifier; and a register_provider call for an Identifier that is      *)
(* registered raises and changes neither the provider collection nor the   *)
(* data collections.                                                       *)
(***************************************************************************)
AtMostOneRegistration ==
    \A identifier \in ProviderIdentifiers : Len(find_entries(identifier)) <= 1

RegisterOfRegisteredRaises ==
    \A identifier \in ProviderIdentifiers :
        (/\ Len(find_entries(identifier)) > 0
         /\ last_call'.op = "register_provider"
         /\ last_call'.identifier = identifier) =>
            /\ last_call'.outcome = "NotImplementedError"
            /\ UNCHANGED <<activity_providers, data_collections>>

C27_OneRegistrationPerIdentifier ==
    /\ []AtMostOneRegistration
    /\ [][RegisterOfRegisteredRaises]_vars

\* A second register_provider for a provider that has a data collection.
C27_Witness ==
    /\ last_call.op = "register_provider"
    /\ last_call.outcome = "NotImplementedError"
    /\ Len(activity_providers) = 2
    /\ data_collections # {}


(***************************************************************************)
(* C28.  After set_captured(get_captured()), and after                     *)
(* load_config_from_db, on a captured value {'Label': 'Timestamp',         *)
(* 'Value': v} with v an ISO timestamp string, the call has returned and   *)
(* captured is that value.                                                 *)
(***************************************************************************)
IsCapturedIsoDict(value) ==
    \E v \in IsoTimestamps : value = TimestampDict(Str(v))

C28_CapturedSurvivesSetGet ==
    (/\ config_call.op \in {"set_captured(get_captured())", "load_config_from_db"}
     /\ IsCapturedIsoDict(captured_before)) =>
        /\ config_call.outcome = "returned"
        /\ captured = captured_before


(***************************************************************************)
(* C29.  Once a start() on the instance has run to its end, no step sends  *)
(* a readiness request, makes a connection or calls setup_database, and    *)
(* no start() ends in an error.                                            *)
(***************************************************************************)
StartedStaysQuiet ==
    starts_returned >= 1 =>
        /\ UNCHANGED <<probes, connections, setup_calls, databases>>
        /\ start_outcome' # "AssertionError"

C29_StartIsIdempotent == [][StartedStaysQuiet]_vars

====
